---- MODULE Spec2Model ----
(***************************************************************************)
(* Model of the maze generator (maze-generator/src/main.rs): Maze::new,    *)
(* Maze::generate, the walk of Maze::draw_solution and the helpers they    *)
(* call (MeanderStrategy, Direction, get_adjacent, is_valid,               *)
(* get_previous_direction, get_previous_cell).                             *)
(*                                                                         *)
(* One action is one iteration of the inner `while index < paths.len()`    *)
(* loop of generate, together with the loop tests that follow it.  The     *)
(* random draws (the weighted direction sample and the 5% branch draw)     *)
(* are existentially quantified inputs of the actions.                     *)
(***************************************************************************)
EXTENDS Integers, Sequences, FiniteSets, TLC

VARIABLES x_size, y_size, start_finish_size,
          cells, strategies, goal_reached,
          finish_x, finish_y, start_x, start_y,
          paths, index, pc, solution,
          cipher

\* The state of the maze generator.
maze == <<x_size, y_size, start_finish_size,
          cells, strategies, goal_reached,
          finish_x, finish_y, start_x, start_y,
          paths, index, pc, solution>>

vars == <<maze, cipher>>

config == <<x_size, y_size, start_finish_size>>

\* ---------------------------------------------------------------- bounds
\* Largest grid dimension passed to Maze::new.
MaxSize == 4

\* Largest number of cells (x_size * y_size) of a grid passed to Maze::new.
MaxCells == 12

\* Largest grid dimension of the mazes built with arbitrary strategy weights.
MaxPolicySize == 3

\* Largest start_finish_size passed to Maze::new.
MaxSfs == 2

\* Cap on the length of the `paths` vector (branching is the only growth).
MaxPaths == 2

\* Cap on the length of the `paths` vector on the small grids where longer
\* frontiers are explored.
MaxManyPaths == 3

\* Longest message encode accepts (45 in the source).
MaxMessageLen == 2

\* Number of cards of the deck (the 52 of the source).  As in the source,
\* where 32^45 < 52!, every number of an accepted message is below the
\* number of orders of the deck: 32^MaxMessageLen < DeckSize!.
DeckSize == 7

\* Largest grid dimension and largest number of cells of the grids on which
\* the frontier paths are stepped in every order.
MaxOrderSize == 3

MaxOrderCells == 9

\* ------------------------------------------------------------- constants
\* Stands for u32::MAX (4294967295), the largest value of the u32 fields
\* x_size, y_size, start_finish_size and start_y.  TLC's integers are 32-bit
\* signed, so the largest of them is used; a wrapped difference is only ever
\* compared with cell coordinates, all far below either value.
U32_MAX == 2147483647

\* Option<T>: None is the empty sequence, Some(v) the one-element sequence.
None == <<>>

Some(v) == <<v>>

unwrap(o) == o[1]

\* -------------------------------------------------------------- Direction
Direction == {"North", "East", "South", "West"}

right(d) ==
    CASE d = "North" -> "East"
      [] d = "East"  -> "South"
      [] d = "South" -> "West"
      [] d = "West"  -> "North"

\* Direction::left with the arm for West returning North.
left_west_to_north(d) ==
    CASE d = "North" -> "West"
      [] d = "West"  -> "North"
      [] d = "South" -> "East"
      [] d = "East"  -> "North"

left(d) ==
    CASE d = "North" -> "West"
      [] d = "West"  -> "South"
      [] d = "South" -> "East"
      [] d = "East"  -> "North"

opposite(d) ==
    CASE d = "North" -> "South"
      [] d = "West"  -> "East"
      [] d = "South" -> "North"
      [] d = "East"  -> "West"

\* u32 subtraction as the release build computes it: a - b modulo 2^32,
\* that is u32::MAX + 1 - (b - a) when b > a.
wrapping_sub(a, b) == IF a >= b THEN a - b ELSE (U32_MAX - (b - a)) + 1

\* ------------------------------------------------------------------ Cell
\* Coordinates of the cells Maze::new creates.
Coords == (0 .. x_size - 1) \X (0 .. y_size - 1)

\* cell_type: 0 inside the centred circle, 1 outside.  The source tests
\*   ((x - xs/2)/xs)^2 + ((y - ys/2)/xs)^2 < 0.15   in f64
\* (both terms divided by x_size); multiplied by 20*xs^2 this is the integer
\* test below, and equality never occurs (3*xs^2/5 is not a sum of squares).
cell_type_of(x, y) ==
    IF 5 * ((2 * x - x_size) * (2 * x - x_size)
            + (2 * y - y_size) * (2 * y - y_size)) < 3 * x_size * x_size
    THEN 0 ELSE 1

start_area_of(x, y) == x < start_finish_size /\ y < start_finish_size

\* The subtractions are the wrapped u32 values (release build); a debug
\* build panics instead when one of them overflows (see NewOverflows).
finish_area_of(x, y) ==
    /\ x >= wrapping_sub(x_size, start_finish_size)
    /\ y >= wrapping_sub(y_size, start_finish_size)

NewCell(x, y) ==
    [cell_type   |-> cell_type_of(x, y),
     edges       |-> [d \in Direction |-> FALSE],
     x           |-> x,
     y           |-> y,
     visited     |-> FALSE,
     start_area  |-> start_area_of(x, y),
     finish_area |-> finish_area_of(x, y)]

\* MeanderStrategy::new(i, j, k, l, m, n)
MeanderStrategy(i, j, k, l, m, n) ==
    [weight_north_south    |-> i,
     weight_east_west      |-> j,
     weight_forward        |-> k,
     weight_turn_left      |-> l,
     weight_turn_right     |-> m,
     weight_same_cell_type |-> n]

\* The two strategies Maze::new installs (index = cell_type).
DefaultStrategies ==
    <<MeanderStrategy(1, 100, 1, 1, 1, 1), MeanderStrategy(1, 1, 1, 1, 1, 1)>>

\* ------------------------------------------------------------------ Maze
\* Maze::get_cell: None stands for the unwrap() of an out-of-range get.
get_cell(x, y) == IF <<x, y>> \in Coords THEN Some(<<x, y>>) ELSE None

\* Maze::get_adjacent on the cell at coordinate c.
get_adjacent(c, direction) ==
    IF direction = "North" THEN
        IF c[2] = y_size - 1 THEN None ELSE Some(<<c[1], c[2] + 1>>)
    ELSE IF direction = "South" THEN
        IF c[2] = 0 THEN None ELSE Some(<<c[1], c[2] - 1>>)
    ELSE IF direction = "East" THEN
        IF c[1] = x_size - 1 THEN None ELSE Some(<<c[1] + 1, c[2]>>)
    ELSE
        IF c[1] = 0 THEN None ELSE Some(<<c[1] - 1, c[2]>>)

\* Cell::has_edge
has_edge(c, direction) == cells[c].edges[direction]

\* is_valid without the `target_cell.visited` test.
is_valid_ignores_visited(c, direction) ==
    LET adj == get_adjacent(c, direction) IN
    IF adj = None THEN FALSE
    ELSE LET target_cell == cells[unwrap(adj)] IN
         IF \/ target_cell.start_area
            \/ (target_cell.finish_area /\ goal_reached)
         THEN FALSE ELSE TRUE

\* is_valid without the `&& self.goal_reached` of the finish_area test.
is_valid_closes_finish(c, direction) ==
    LET adj == get_adjacent(c, direction) IN
    IF adj = None THEN FALSE
    ELSE LET target_cell == cells[unwrap(adj)] IN
         IF \/ target_cell.visited
            \/ target_cell.start_area
            \/ target_cell.finish_area
         THEN FALSE ELSE TRUE

\* is_valid without the finish_area test.
is_valid_ignores_goal(c, direction) ==
    LET adj == get_adjacent(c, direction) IN
    IF adj = None THEN FALSE
    ELSE LET target_cell == cells[unwrap(adj)] IN
         IF \/ target_cell.visited
            \/ target_cell.start_area
         THEN FALSE ELSE TRUE

\* is_valid without the `target_cell.start_area` test.
is_valid_allows_start_area(c, direction) ==
    LET adj == get_adjacent(c, direction) IN
    IF adj = None THEN FALSE
    ELSE LET target_cell == cells[unwrap(adj)] IN
         IF \/ target_cell.visited
            \/ (target_cell.finish_area /\ goal_reached)
         THEN FALSE ELSE TRUE

\* Maze::is_valid
is_valid(c, direction) ==
    LET adj == get_adjacent(c, direction) IN
    IF adj = None THEN FALSE
    ELSE LET target_cell == cells[unwrap(adj)] IN
         IF \/ target_cell.visited
            \/ target_cell.start_area
            \/ (target_cell.finish_area /\ goal_reached)
         THEN FALSE ELSE TRUE

\* The test of get_previous_direction looking at the neighbour's edge in
\* `direction` instead of the opposite one.
arrives_from_unflipped(c, direction) ==
    LET adj == get_adjacent(c, direction) IN
    adj # None /\ has_edge(unwrap(adj), direction)

\* The test of one iteration of the loop of get_previous_direction: the
\* neighbour in `direction` exists and has an edge pointing back at c.
arrives_from(c, direction) ==
    LET adj == get_adjacent(c, direction) IN
    adj # None /\ has_edge(unwrap(adj), opposite(direction))

\* get_previous_direction returning the scanned direction itself instead of
\* its opposite.
get_previous_direction_unflipped(c) ==
    IF arrives_from(c, "North") THEN Some("North")
    ELSE IF arrives_from(c, "East") THEN Some("East")
    ELSE IF arrives_from(c, "South") THEN Some("South")
    ELSE IF arrives_from(c, "West") THEN Some("West")
    ELSE None

\* Maze::get_previous_direction: the loop scans North, East, South, West
\* (direction = direction.right()) and returns at the first match.
get_previous_direction(c) ==
    IF arrives_from(c, "North") THEN Some(opposite("North"))
    ELSE IF arrives_from(c, "East") THEN Some(opposite("East"))
    ELSE IF arrives_from(c, "South") THEN Some(opposite("South"))
    ELSE IF arrives_from(c, "West") THEN Some(opposite("West"))
    ELSE None

\* get_previous_cell without the .opposite() applied to the incoming
\* direction: it steps onward in the direction of travel.
get_previous_cell_forward(c) ==
    LET pd == get_previous_direction(c) IN
    IF pd = None THEN None
    ELSE get_adjacent(c, unwrap(pd))

\* Maze::get_previous_cell: None stands for a failed unwrap().
get_previous_cell(c) ==
    LET pd == get_previous_direction(c) IN
    IF pd = None THEN None
    ELSE get_adjacent(c, opposite(unwrap(pd)))

\* ------------------------------------------------------- MeanderStrategy
\* get_weight with the two turn weights exchanged: weight_turn_right added
\* on a left turn and weight_turn_left on a right turn.
get_weight_turns_swapped(strategy, c, direction, previous_direction) ==
    LET next == cells[unwrap(get_adjacent(c, direction))]
        w1 == IF direction = "North" \/ direction = "South"
              THEN strategy.weight_north_south ELSE strategy.weight_east_west
        w2 == IF cells[c].cell_type = next.cell_type
              THEN strategy.weight_same_cell_type ELSE 0
        w3 == IF direction = previous_direction
              THEN strategy.weight_forward ELSE 0
        w4 == IF direction = left(previous_direction)
              THEN strategy.weight_turn_right ELSE 0
        w5 == IF direction = right(previous_direction)
              THEN strategy.weight_turn_left ELSE 0
    IN w1 + w2 + w3 + w4 + w5

\* MeanderStrategy::get_weight
get_weight(strategy, c, direction, previous_direction) ==
    LET next == cells[unwrap(get_adjacent(c, direction))]
        w1 == IF direction = "North" \/ direction = "South"
              THEN strategy.weight_north_south ELSE strategy.weight_east_west
        w2 == IF cells[c].cell_type = next.cell_type
              THEN strategy.weight_same_cell_type ELSE 0
        w3 == IF direction = previous_direction
              THEN strategy.weight_forward ELSE 0
        w4 == IF direction = left(previous_direction)
              THEN strategy.weight_turn_left ELSE 0
        w5 == IF direction = right(previous_direction)
              THEN strategy.weight_turn_right ELSE 0
    IN w1 + w2 + w3 + w4 + w5

\* previous_direction of get_direction: incoming direction, North if none.
previous_direction_of(c) ==
    LET pd == get_previous_direction(c) IN
    IF pd = None THEN "North" ELSE unwrap(pd)

\* The for-loop of get_direction running three times instead of four
\* (`for _ in 0..3`): previous_direction itself is never tried.
rotation_three_turns(previous_direction) ==
    <<right(previous_direction),
      right(right(previous_direction)),
      right(right(right(previous_direction)))>>

\* The four directions in the order the for-loop of get_direction visits
\* them: previous_direction.right() and three more right() turns.
rotation(previous_direction) ==
    <<right(previous_direction),
      right(right(previous_direction)),
      right(right(right(previous_direction))),
      right(right(right(right(previous_direction))))>>

\* The `directions` vector built by the for-loop of get_direction.
directions_of(c, previous_direction) ==
    SelectSeq(rotation(previous_direction), LAMBDA d : is_valid(c, d))

\* The `weights` vector built by the for-loop of get_direction.
weights_of(strategy, c, directions, previous_direction) ==
    [i \in 1 .. Len(directions) |->
        get_weight(strategy, c, directions[i], previous_direction)]

\* WeightedIndex::new(&weights) is Err(AllWeightsZero) when the total is 0.
weighted_index_ok(weights) == \E i \in 1 .. Len(weights) : weights[i] > 0

\* The panic of WeightedIndex::new(&weights).unwrap() on Err(AllWeightsZero).
AllWeightsZero == <<"unwrap", "AllWeightsZero">>

\* The tail of get_direction, after the for-loop: {None} at a dead end,
\* {AllWeightsZero} when WeightedIndex::new(..).unwrap() panics, otherwise
\* Some(d) for every candidate dist.sample can return (non-zero weight).
weighted_choice(directions, weights) ==
    IF Len(directions) > 0
    THEN IF weighted_index_ok(weights)
         THEN {Some(directions[i]) :
                 i \in {j \in 1 .. Len(directions) : weights[j] > 0}}
         ELSE {AllWeightsZero}
    ELSE {None}

\* MeanderStrategy::get_direction: the set of its possible outcomes.  pd and
\* ds are the source's `previous_direction` and `directions`, bound once.
get_direction(strategy, c) ==
    UNION {UNION {weighted_choice(ds, weights_of(strategy, c, ds, pd)) :
                    ds \in {directions_of(c, pd)}} :
             pd \in {previous_direction_of(c)}}

\* Maze::meander: the strategy is chosen by the cell's cell_type.
meander(c) == get_direction(strategies[cells[c].cell_type + 1], c)

\* --------------------------------------------------------- draw_solution
\* What draw_solution has done: `outcome` is "none" before it is called,
\* then "returns", "panic" (a failed unwrap) or "diverges" (the while loop
\* never ends); `walked` lists the values `current` took, finish cell first.
Drawing(outcome, walked) == [outcome |-> outcome, walked |-> walked]

NotDrawn == Drawing("none", <<>>)

\* The while loop of draw_solution leaving the loop one cell early
\* (testing `previous` in place of `current` against the start cell).
RECURSIVE solution_walk_stops_early(_, _, _)
solution_walk_stops_early(current, walked, fuel) ==
    IF get_previous_cell(current) = Some(<<start_x, start_y>>)
    THEN Drawing("returns", walked)
    ELSE IF fuel = 0 THEN Drawing("diverges", walked)
    ELSE IF get_previous_cell(current) = None THEN Drawing("panic", walked)
    ELSE solution_walk_stops_early(unwrap(get_previous_cell(current)),
                       Append(walked, unwrap(get_previous_cell(current))),
                       fuel - 1)

\* The while loop of draw_solution: until `current` is the start cell, draw
\* the rectangle spanning `current` and `previous`, step to `previous` and
\* look up its predecessor with get_previous_cell (which unwraps).  The grid
\* does not change meanwhile, so the lookup made at the end of an iteration
\* is the one made here at the start of the next.  `fuel` counts the
\* iterations left before every cell has been walked once: when it runs
\* out the walk is in a cycle and the loop never ends.
RECURSIVE solution_walk(_, _, _)
solution_walk(current, walked, fuel) ==
    IF current = <<start_x, start_y>> THEN Drawing("returns", walked)
    ELSE IF fuel = 0 THEN Drawing("diverges", walked)
    ELSE IF get_previous_cell(current) = None THEN Drawing("panic", walked)
    ELSE solution_walk(unwrap(get_previous_cell(current)),
                       Append(walked, unwrap(get_previous_cell(current))),
                       fuel - 1)

\* draw_solution with the first get_previous_cell moved into the loop, so
\* that nothing is looked up when the finish coordinates are the start cell.
draw_solution_lazy ==
    IF get_cell(finish_x, finish_y) = None
    THEN Drawing("panic", <<>>)
    ELSE solution_walk(<<finish_x, finish_y>>, <<<<finish_x, finish_y>>>>,
                       x_size * y_size)

\* Maze::draw_solution, the walk from the finish coordinates: get_cell and
\* the first get_previous_cell are evaluated before the loop test.
draw_solution ==
    IF get_cell(finish_x, finish_y) = None
    THEN Drawing("panic", <<>>)
    ELSE IF get_previous_cell(<<finish_x, finish_y>>) = None
    THEN Drawing("panic", <<>>)
    ELSE solution_walk(<<finish_x, finish_y>>, <<<<finish_x, finish_y>>>>,
                       x_size * y_size)

\* The card-deck program is a separate executable: while the maze generator
\* runs it holds no message.
CipherOff ==
    [pc |-> "off", message |-> <<>>, cards |-> <<>>, decoded |-> <<>>]

\* ------------------------------------------------------------ state machine
\* Maze::new is called with arguments drawn from the bounded sets.
InitWith(sizes) ==
    /\ x_size \in sizes
    /\ y_size \in sizes
    /\ x_size * y_size <= MaxCells
    /\ start_finish_size \in 0 .. MaxSfs
    /\ cells = <<>>
    /\ strategies = <<>>
    /\ goal_reached = FALSE
    /\ finish_x = 0
    /\ finish_y = 0
    /\ start_x = 0
    /\ start_y = 0
    /\ paths = <<>>
    /\ index = 0
    /\ pc = "new"
    /\ solution = NotDrawn
    /\ cipher = CipherOff

Init == InitWith(0 .. MaxSize)

\* A u32 subtraction of Maze::new overflows: `x_size - start_finish_size`
\* is evaluated for every cell, `y_size - start_finish_size` for the cells
\* that pass the x test (&& short-circuits), `start_finish_size - 1` always.
NewOverflows ==
    \/ /\ Coords # {}
       /\ \/ x_size < start_finish_size
          \/ /\ y_size < start_finish_size
             /\ \E c \in Coords : c[1] >= x_size - start_finish_size
    \/ start_finish_size < 1

\* The body of Maze::new with `strats` pushed into the strategies vector.
\* What a u32 overflow does depends on the build profile: a debug build
\* panics, a release build wraps around; both outcomes are possible when a
\* subtraction overflows.
new_maze(strats) ==
    /\ pc = "new"
    /\ \E overflow_panics \in IF NewOverflows THEN BOOLEAN ELSE {FALSE} :
         IF overflow_panics
         THEN /\ pc' = "panic"
              /\ UNCHANGED <<cells, strategies, start_x, start_y>>
         ELSE /\ cells' = [c \in Coords |-> NewCell(c[1], c[2])]
              /\ strategies' = strats
              /\ start_x' = 0
              /\ start_y' = wrapping_sub(start_finish_size, 1)
              /\ pc' = "built"
    /\ UNCHANGED <<cipher, config, solution, goal_reached, finish_x, finish_y, paths, index>>

\* Maze::new(x_size, y_size, start_finish_size)
New == new_maze(DefaultStrategies)

\* Maze::generate up to the first test of the inner loop:
\* paths.push(self.get_cell(self.start_x, self.start_y)), index = 0.
GenerateStart ==
    /\ pc = "built"
    /\ IF get_cell(start_x, start_y) = None
       THEN /\ pc' = "panic"
            /\ UNCHANGED <<paths, index>>
       ELSE /\ paths' = <<unwrap(get_cell(start_x, start_y))>>
            /\ index' = 0
            /\ pc' = "loop"
    /\ UNCHANGED <<cipher, config, solution, cells, strategies, goal_reached,
                   finish_x, finish_y, start_x, start_y>>

\* draw_edge without the mark_as_visited that follows it.
record_edge_unmarked(from, direction, to) ==
    [cells EXCEPT ![from].edges[direction] = TRUE]

\* draw_edge followed by mark_as_visited on the cell stepped from
\* (mark_as_visited(&path) in place of mark_as_visited(&next)).
record_edge_marks_source(from, direction, to) ==
    LET drawn == [cells EXCEPT ![from].edges[direction] = TRUE]
    IN [drawn EXCEPT ![from].visited = TRUE]

\* draw_edge replacing the whole edges array of the cell by one that holds
\* only the new edge.
record_edge_fresh_array(from, direction, to) ==
    LET drawn == [cells EXCEPT
                    ![from].edges = [d \in Direction |-> d = direction]]
    IN [drawn EXCEPT ![to].visited = TRUE]

\* draw_edge called on both cells of the move: the edge towards `direction`
\* on `from` and the edge back on `to`.
record_edge_both_sides(from, direction, to) ==
    LET drawn == [cells EXCEPT ![from].edges[direction] = TRUE,
                               ![to].edges[opposite(direction)] = TRUE]
    IN [drawn EXCEPT ![to].visited = TRUE]

\* Cell::draw_edge through Maze::draw_edge, Cell::mark_as_visited through
\* Maze::mark_as_visited: the edge of `from` towards `direction` is set and
\* `to` is marked visited.
record_edge(from, direction, to) ==
    LET drawn == [cells EXCEPT ![from].edges[direction] = TRUE]
    IN [drawn EXCEPT ![to].visited = TRUE]

\* The loop tests that follow one iteration of the inner loop: the inner
\* `while index < paths.len()`, then the outer `while paths.len() > 0`,
\* which starts the next pass with index = 0 or returns.
LoopTests(new_paths, new_index) ==
    /\ paths' = new_paths
    /\ IF new_index < Len(new_paths)
       THEN index' = new_index /\ pc' = "loop"
       ELSE IF Len(new_paths) > 0
            THEN index' = 0 /\ pc' = "loop"
            ELSE index' = new_index /\ pc' = "done"

\* The path being stepped: paths[index] (index is 0-based in the source).
path == paths[index + 1]

\* Vec::remove leaving the vector as it is.
remove_nothing(v, i) == v

\* Remove the element at 0-based position i: Vec::remove.
remove(v, i) == SubSeq(v, 1, i) \o SubSeq(v, i + 2, Len(v))

\* The finish branch removing the path from the vector.
moved_paths_retiring(pushed, next) ==
    IF cells[next].finish_area
    THEN remove(pushed, index)
    ELSE [pushed EXCEPT ![index + 1] = next]

\* What the if/else on next.finish_area does to the `paths` vector: the
\* finish branch leaves it alone, the else branch stores the next cell
\* (paths[index] = self.get_cell(next.x, next.y)).
moved_paths(pushed, next) ==
    IF cells[next].finish_area
    THEN pushed
    ELSE [pushed EXCEPT ![index + 1] = next]

\* The branch pushing a path at the destination of the move.
branched_at_destination(ps, from, to) == Append(ps, to)

\* paths.push(Path {x: path.x, y: path.y}): the new path is a copy of the
\* stepping path, taken before the move.
branched(ps, from, to) == Append(ps, from)

\* One iteration with meander() = Some(direction): optional branch, then
\* the move (into the finish area, or onto an ordinary cell).  The branch
\* draw can succeed while the vector holds fewer than `cap` paths.
AdvanceUpTo(cap) ==
    /\ pc = "loop"
    /\ \E outcome \in meander(path), branch \in BOOLEAN :
        /\ Len(outcome) = 1
        /\ branch => Len(paths) < cap
        /\ LET direction == unwrap(outcome)
               next == unwrap(get_adjacent(path, direction))
               pushed == IF branch THEN branched(paths, path, next) ELSE paths
           IN /\ cells' = record_edge(path, direction, next)
              /\ IF cells[next].finish_area
                 THEN /\ finish_x' = next[1]
                      /\ finish_y' = next[2]
                      /\ goal_reached' = TRUE
                 ELSE UNCHANGED <<goal_reached, finish_x, finish_y>>
              /\ LoopTests(moved_paths(pushed, next), index + 1)
    /\ UNCHANGED <<cipher, config, solution, strategies, start_x, start_y>>

Advance == AdvanceUpTo(MaxPaths)

\* The None branch removing the path at any dead end, not only at the start
\* cell.
Backtrack_removes_path ==
    /\ pc = "loop"
    /\ None \in meander(path)
    /\ ~(path[1] = start_x /\ path[2] = start_y)
    /\ LoopTests(remove(paths, index), index)
    /\ UNCHANGED <<cipher, config, solution, cells, strategies, goal_reached,
                   finish_x, finish_y, start_x, start_y>>

\* One iteration with meander() = None away from the start cell: the path
\* steps back to the previous cell.
Backtrack ==
    /\ pc = "loop"
    /\ None \in meander(path)
    /\ ~(path[1] = start_x /\ path[2] = start_y)
    /\ IF get_previous_cell(path) = None
       THEN pc' = "panic" /\ UNCHANGED <<paths, index>>
       ELSE LoopTests([paths EXCEPT ![index + 1] = unwrap(get_previous_cell(path))],
                      index + 1)
    /\ UNCHANGED <<cipher, config, solution, cells, strategies, goal_reached,
                   finish_x, finish_y, start_x, start_y>>

\* The removal at the start cell followed by index = index + 1, as in the
\* other branches.
Retire_advances_index ==
    /\ pc = "loop"
    /\ None \in meander(path)
    /\ path[1] = start_x /\ path[2] = start_y
    /\ LoopTests(remove(paths, index), index + 1)
    /\ UNCHANGED <<cipher, config, solution, cells, strategies, goal_reached,
                   finish_x, finish_y, start_x, start_y>>

\* One iteration with meander() = None at the start cell: the path is
\* removed from the vector and index is not advanced.
Retire ==
    /\ pc = "loop"
    /\ None \in meander(path)
    /\ path[1] = start_x /\ path[2] = start_y
    /\ LoopTests(remove(paths, index), index)
    /\ UNCHANGED <<cipher, config, solution, cells, strategies, goal_reached,
                   finish_x, finish_y, start_x, start_y>>

Next == New \/ GenerateStart \/ Advance \/ Backtrack \/ Retire

Spec == Init /\ [][Next]_vars

\* The weights a MeanderStrategy::new argument is drawn from.
WeightValues == {0, 1}

\* Maze::new with both strategies built by MeanderStrategy::new from
\* arbitrary weights, zero included, in place of the two fixed strategies.
NewWithStrategy ==
    \E i, j, k, l, m, n \in WeightValues :
        new_maze(<<MeanderStrategy(i, j, k, l, m, n),
                   MeanderStrategy(i, j, k, l, m, n)>>)

\* One iteration in which get_direction panics: WeightedIndex::new(..)
\* returns Err(AllWeightsZero) and is unwrapped.  The strategies Maze::new
\* installs have no zero weight, so this never happens under Spec.
MeanderPanics ==
    /\ pc = "loop"
    /\ AllWeightsZero \in meander(path)
    /\ pc' = "panic"
    /\ UNCHANGED <<cipher, config, solution, cells, strategies, goal_reached,
                   finish_x, finish_y, start_x, start_y, paths, index>>

NextPolicy ==
    NewWithStrategy \/ GenerateStart \/ Advance \/ Backtrack \/ Retire
        \/ MeanderPanics

\* Generation on a maze whose strategies carry arbitrary weights.
SpecPolicy == InitWith(0 .. MaxPolicySize) /\ [][NextPolicy]_vars

\* A strategy whose six weights are distinct powers of two, so that the sum
\* get_weight returns tells which of the weights were added.
DistinctWeights == MeanderStrategy(1, 2, 4, 8, 16, 32)

\* Maze::new installing either its own two strategies or, for both cell
\* types, the strategy MeanderStrategy::new builds from distinct weights.
NewWithWeights ==
    \E strats \in {DefaultStrategies, <<DistinctWeights, DistinctWeights>>} :
        new_maze(strats)

NextWeights ==
    NewWithWeights \/ GenerateStart \/ Advance \/ Backtrack \/ Retire

\* Generation on a maze whose strategies let the weights be told apart.
SpecWeights == Init /\ [][NextWeights]_vars

\* The inner loop taking the frontier paths in another order: the next path
\* to step is any element of `paths`, not the one after the last stepped.
PickPath ==
    /\ pc = "loop"
    /\ index' \in (0 .. Len(paths) - 1) \ {index}
    /\ UNCHANGED <<cipher, config, solution, cells, strategies, goal_reached,
                   finish_x, finish_y, start_x, start_y, paths, pc>>

NextAnyOrder ==
    New \/ GenerateStart \/ PickPath \/ Advance \/ Backtrack \/ Retire

\* Maze::new called with the arguments of the grids stepped in every order.
InitAnyOrder ==
    /\ InitWith(0 .. MaxOrderSize)
    /\ x_size * y_size <= MaxOrderCells

\* Generation with the loop iterations (one path step each) taken in every
\* possible order of the frontier paths.
SpecAnyOrder == InitAnyOrder /\ [][NextAnyOrder]_vars

AdvanceFreely == AdvanceUpTo(MaxManyPaths)

NextManyPaths ==
    New \/ GenerateStart \/ AdvanceFreely \/ Backtrack \/ Retire

\* Generation on the small grids with a longer frontier.
SpecManyPaths == InitAnyOrder /\ [][NextManyPaths]_vars

\* draw_solution called on the maze, before generate or after it returned
\* (it takes &self, so never while generate runs).
DrawSolution ==
    /\ pc \in {"built", "done"}
    /\ solution' = draw_solution
    /\ pc' = IF solution'.outcome = "returns" THEN "drawn"
             ELSE solution'.outcome
    /\ UNCHANGED <<cipher, config, cells, strategies, goal_reached,
                   finish_x, finish_y, start_x, start_y, paths, index>>

NextDraw ==
    New \/ GenerateStart \/ Advance \/ Backtrack \/ Retire \/ DrawSolution

\* Construction, generation and the drawing of the solution.
SpecDraw == Init /\ [][NextDraw]_vars

\* generate is a sequential loop that runs without suspension: whenever an
\* iteration can be taken, it is taken.
FairSpec == Spec /\ WF_vars(Next)

\* ------------------------------------------------------------ vocabulary
\* The start cell of the maze.
StartCell == <<start_x, start_y>>

\* The cells marked visited.
VisitedCells == {c \in DOMAIN cells : cells[c].visited}

\* The cells of the finish area that are marked visited.
VisitedFinishCells == {c \in VisitedCells : cells[c].finish_area}

\* The recorded edges that point at cell c, each named by the direction in
\* which the neighbour holding it lies.
IncomingEdges(c) == {d \in Direction : arrives_from(c, d)}

\* The cells of the finish area.
FinishCells == {c \in DOMAIN cells : cells[c].finish_area}

\* The recorded edges that point at a cell of the finish area.
FinishEdges ==
    {e \in FinishCells \X Direction : arrives_from(e[1], e[2])}

\* The cells a recorded edge of p points at and whose predecessor (as
\* get_previous_cell finds it) is p.
Successors(p) ==
    IF p \notin DOMAIN cells THEN {}
    ELSE {unwrap(get_adjacent(p, d)) :
            d \in {e \in Direction :
                      /\ has_edge(p, e)
                      /\ get_adjacent(p, e) # None
                      /\ get_previous_cell(unwrap(get_adjacent(p, e))) = Some(p)}}

\* The cells from which stepping to the predecessor at most n times reaches
\* the start cell: `known` are those found so far, `new` those found in the
\* last round (exactly one step further from the start than the round before).
RECURSIVE WithinSteps(_, _, _)
WithinSteps(known, new, n) ==
    IF n = 0 \/ new = {} THEN known
    ELSE LET next == (UNION {Successors(p) : p \in new}) \ known
         IN WithinSteps(known \cup next, next, n - 1)

\* The cells whose predecessor walk reaches the start cell in <= n steps.
ReachStartWithin(n) == WithinSteps({StartCell}, {StartCell}, n)

\* ------------------------------------------------------------------ claims
\* C1: every visited cell other than the start cell has exactly one incoming
\* edge, and the start cell has none.
C1_OneIncomingEdge ==
    \A c \in DOMAIN cells :
        /\ (c \in VisitedCells /\ c # StartCell)
              => Cardinality(IncomingEdges(c)) = 1
        /\ c = StartCell => IncomingEdges(c) = {}

\* C1 witness: two frontier paths are active and at least four cells have
\* been visited.
C1_Witness ==
    /\ pc = "loop"
    /\ Len(paths) = 2
    /\ paths[1] # paths[2]
    /\ Cardinality(VisitedCells) >= 4

\* C2: the recorded edges contain no cycle: from every visited cell the walk
\* along predecessors reaches the start cell within x_size * y_size steps.
C2_NoCycle ==
    VisitedCells \subseteq ReachStartWithin(x_size * y_size)

\* C2 witness: generation is complete on a 4 x 3 grid and a visited cell in
\* the last column lies more than five edges away from the start cell.
C2_Witness ==
    /\ pc = "done"
    /\ x_size = 4 /\ y_size = 3
    /\ \E c \in VisitedCells \ ReachStartWithin(5) : c[1] = 3

\* C3: at most one finish_area cell is ever marked visited, and once
\* goal_reached is true no step records an edge into, or marks visited, a
\* finish_area cell.
C3_SingleFinishEntry ==
    /\ [](Cardinality(VisitedFinishCells) <= 1 /\ Cardinality(FinishEdges) <= 1)
    /\ [][goal_reached =>
            /\ VisitedFinishCells' = VisitedFinishCells
            /\ FinishEdges' = FinishEdges]_vars

\* C3 witness: goal_reached is set while a frontier path stands next to an
\* unvisited finish_area cell.
C3_Witness ==
    /\ pc = "loop"
    /\ goal_reached
    /\ \E i \in 1 .. Len(paths), d \in Direction :
        LET adj == get_adjacent(paths[i], d) IN
        /\ adj # None
        /\ cells[unwrap(adj)].finish_area
        /\ ~cells[unwrap(adj)].visited
        /\ ~cells[unwrap(adj)].start_area

\* C4: generate terminates: once the loop has started, the frontier
\* eventually becomes empty and generate returns.
C4_Terminates == (pc = "loop") ~> (pc = "done" /\ paths = <<>>)

\* C4 witness: generate has returned with an empty frontier after visiting
\* at least ten cells.
C4_Witness ==
    /\ pc = "done"
    /\ paths = <<>>
    /\ Cardinality(VisitedCells) >= 10

\* A valid configuration: positive dimensions, a positive zone size, and
\* start_finish_size < min(x_size, y_size) / 2.
ValidConfiguration ==
    /\ x_size >= 1
    /\ y_size >= 1
    /\ start_finish_size >= 1
    /\ 2 * start_finish_size < x_size
    /\ 2 * start_finish_size < y_size

\* The cells that lie in neither start_area nor finish_area.
TraversableCells ==
    {c \in DOMAIN cells : ~cells[c].start_area /\ ~cells[c].finish_area}

\* C5: when generation completes on a valid configuration, every cell in
\* neither start_area nor finish_area has been marked visited.
C5_AllTraversableVisited ==
    (pc = "done" /\ ValidConfiguration) => TraversableCells \subseteq VisitedCells

\* C5 witness: generation has completed on a valid 4 x 3 grid, whose ten
\* traversable cells are all visited.
C5_Witness ==
    /\ pc = "done"
    /\ ValidConfiguration
    /\ x_size = 4 /\ y_size = 3
    /\ Cardinality(TraversableCells) = 10
    /\ TraversableCells \subseteq VisitedCells

\* C6: when generation completes on a valid configuration, goal_reached is
\* true.
C6_GoalReachedAtEnd == (pc = "done" /\ ValidConfiguration) => goal_reached

\* C6 witness: generation has completed on a valid 3 x 4 grid with the goal
\* reached at the far corner.
C6_Witness ==
    /\ pc = "done"
    /\ ValidConfiguration
    /\ x_size = 3 /\ y_size = 4
    /\ goal_reached
    /\ finish_x = 2 /\ finish_y = 3

\* C7: goal_reached is true if and only if at least one finish_area cell is
\* marked visited.
C7_GoalIffFinishVisited == goal_reached <=> (VisitedFinishCells # {})

\* C7 witness: the goal has been reached while paths are still active.
C7_Witness ==
    /\ pc = "loop"
    /\ goal_reached
    /\ VisitedFinishCells # {}
    /\ Len(paths) = 2

\* The step moves the stepped path in direction d into the finish area: the
\* d edge of its cell becomes set and the neighbour in direction d is a
\* finish_area cell.
FinishMove(d) ==
    /\ pc = "loop"
    /\ get_adjacent(path, d) # None
    /\ cells[unwrap(get_adjacent(path, d))].finish_area
    /\ ~has_edge(path, d)
    /\ cells'[path].edges[d]

\* The effects of a finish move on the grid: destination visited,
\* goal_reached set, finish coordinates stored.
FinishRecorded(d) ==
    LET next == unwrap(get_adjacent(path, d)) IN
    /\ cells'[next].visited
    /\ goal_reached'
    /\ finish_x' = next[1]
    /\ finish_y' = next[2]

\* C8 as claimed, on a valid configuration: a finish move records the edge,
\* marks the destination visited, sets goal_reached, stores the finish
\* coordinates and removes the stepped path from the frontier (a branch may
\* have pushed a copy of it first).
C8_FinishRetiresPath ==
    [][\A d \in Direction :
          (ValidConfiguration /\ FinishMove(d)) =>
            /\ FinishRecorded(d)
            /\ paths' \in {remove(paths, index),
                           remove(Append(paths, path), index)}]_vars

\* C8 amended: a finish move records the edge, marks the destination visited,
\* sets goal_reached and stores the finish coordinates, and the stepped path
\* stays in the frontier at the cell it stepped from, with the loop going on.
C8_FinishKeepsPath ==
    [][\A d \in Direction :
          FinishMove(d) =>
            /\ FinishRecorded(d)
            /\ paths' \in {paths, Append(paths, path)}
            /\ paths'[index + 1] = path
            /\ pc' = "loop"]_vars

\* C8 witness: the goal is reached and a frontier path stands on the cell
\* whose edge leads into the finish cell.
C8_Witness ==
    /\ pc = "loop"
    /\ goal_reached
    /\ \E i \in 1 .. Len(paths), d \in Direction :
        /\ has_edge(paths[i], d)
        /\ get_adjacent(paths[i], d) = Some(<<finish_x, finish_y>>)
        /\ cells[<<finish_x, finish_y>>].finish_area

\* C9 as claimed: on a configuration that is not valid, generation never
\* runs (the loop is never entered and generate never returns).
C9_InvalidNeverGenerates ==
    ~ValidConfiguration => pc \notin {"loop", "done"}

\* The stepped path has a valid move and every candidate weight is zero.
ZeroWeightCase ==
    /\ pc = "loop"
    /\ \E d \in Direction : is_valid(path, d)
    /\ \A d \in Direction :
          is_valid(path, d) =>
            get_weight(strategies[cells[path].cell_type + 1], path, d,
                       previous_direction_of(path)) = 0

\* C10 as claimed, on a valid configuration: with a valid move and all
\* candidate weights zero, the policy returns one of the valid candidates,
\* each of them possible.
C10_ZeroWeightsStillChoose ==
    (ValidConfiguration /\ ZeroWeightCase) =>
        meander(path) = {Some(d) : d \in {e \in Direction : is_valid(path, e)}}

\* The cells holding a recorded edge that points at cell c.
Predecessors(c) ==
    {n \in DOMAIN cells :
        \E d \in Direction : has_edge(n, d) /\ get_adjacent(n, d) = Some(c)}

\* The stepped path is at a dead end: the policy returns none for it.
DeadEnd == pc = "loop" /\ None \in meander(path)

\* C11: a step shortens the frontier only when the stepped path is at the
\* start cell and the policy returns none, and then removes exactly that
\* path; when the policy returns none at another cell, the stepped path moves
\* to the one neighbour whose recorded edge points into its cell and stays in
\* the frontier; no step touches a path other than the stepped one.
C11_RemovedOnlyAtStart ==
    [][/\ Len(paths') < Len(paths) =>
            /\ DeadEnd
            /\ path = StartCell
            /\ paths' = remove(paths, index)
       /\ (DeadEnd /\ path # StartCell) =>
            /\ Cardinality(Predecessors(path)) = 1
            /\ paths' = [paths EXCEPT
                            ![index + 1] = CHOOSE p \in Predecessors(path) : TRUE]
       /\ Len(paths') >= Len(paths) =>
            \A i \in 1 .. Len(paths) :
                i # index + 1 => paths'[i] = paths[i]]_vars

\* C11 witness: on a valid 3 x 3 grid every path has backtracked to the start
\* cell and been removed there, after at least six cells were visited.
C11_Witness ==
    /\ pc = "done"
    /\ paths = <<>>
    /\ ValidConfiguration
    /\ x_size = 3 /\ y_size = 3
    /\ Cardinality(VisitedCells) >= 6

\* The cells of the start area.
StartAreaCells == {c \in DOMAIN cells : cells[c].start_area}

\* C12: no start_area cell other than the start cell is marked visited, and
\* no recorded edge points at a start_area cell.
C12_StartAreaUntouched ==
    \A c \in StartAreaCells :
        /\ c # StartCell => ~cells[c].visited
        /\ IncomingEdges(c) = {}

\* C12 witness: generation has completed on a grid whose start area has four
\* cells, and a visited cell lies next to a start_area cell other than the
\* start cell.
C12_Witness ==
    /\ pc = "done"
    /\ Cardinality(StartAreaCells) = 4
    /\ \E c \in StartAreaCells \ {StartCell}, d \in Direction :
          /\ get_adjacent(c, d) # None
          /\ cells[unwrap(get_adjacent(c, d))].visited

\* The edge flags set in the grid, as <<cell, direction>> pairs.
EdgeFlags == {e \in (DOMAIN cells) \X Direction : has_edge(e[1], e[2])}

\* C13: a set edge flag in direction D has a neighbour in direction D inside
\* the grid, marked visited; a step that sets an edge flag marks that
\* neighbour, unvisited before, as visited in the same step, and a step that
\* marks a cell visited sets exactly one edge flag, pointing at that cell.
C13_EdgeWithVisit ==
    /\ [](\A e \in EdgeFlags :
            /\ get_adjacent(e[1], e[2]) # None
            /\ unwrap(get_adjacent(e[1], e[2])) \in VisitedCells)
    /\ [][/\ \A e \in EdgeFlags' \ EdgeFlags :
               /\ get_adjacent(e[1], e[2]) # None
               /\ VisitedCells' \ VisitedCells
                     = {unwrap(get_adjacent(e[1], e[2]))}
          /\ \A c \in VisitedCells' \ VisitedCells :
               \E f \in EdgeFlags' \ EdgeFlags :
                   /\ EdgeFlags' \ EdgeFlags = {f}
                   /\ get_adjacent(f[1], f[2]) = Some(c)]_vars

\* C13 witness: two paths are active and at least five edge flags are set,
\* one of them on a cell of the last row pointing East.
C13_Witness ==
    /\ pc = "loop"
    /\ Len(paths) = 2
    /\ Cardinality(EdgeFlags) >= 5
    /\ \E e \in EdgeFlags : e[1][2] = y_size - 1 /\ e[2] = "East"

\* The grid distance between two cells.
Distance(a, b) ==
    (IF a[1] >= b[1] THEN a[1] - b[1] ELSE b[1] - a[1])
      + (IF a[2] >= b[2] THEN a[2] - b[2] ELSE b[2] - a[2])

\* The walk w, read backwards, is a path from the start cell to the finish
\* cell: consecutive cells are grid-adjacent and joined by a recorded edge
\* towards the finish, and no cell occurs twice.
StartToFinishPath(w) ==
    /\ Len(w) >= 1
    /\ w[1] = <<finish_x, finish_y>>
    /\ w[Len(w)] = StartCell
    /\ \A i \in 1 .. Len(w) - 1 :
          /\ Distance(w[i], w[i + 1]) = 1
          /\ w[i + 1] \in Predecessors(w[i])
    /\ \A i, j \in 1 .. Len(w) : i # j => w[i] # w[j]

\* C14: when draw_solution is called after generation with goal_reached
\* true, the walk from the finish cell along predecessors ends at the start
\* cell (it neither fails nor goes on forever), and the cells walked form a
\* start-to-finish path of grid-adjacent cells without repetition.
C14_SolutionWalk ==
    (solution.outcome # "none" /\ goal_reached) =>
        /\ solution.outcome = "returns"
        /\ pc = "drawn"
        /\ cells[<<finish_x, finish_y>>].finish_area
        /\ StartToFinishPath(solution.walked)

\* C14 witness: the solution of a valid 4 x 3 maze has been drawn and walks
\* through eight cells or more.
C14_Witness ==
    /\ pc = "drawn"
    /\ goal_reached
    /\ ValidConfiguration
    /\ x_size = 4 /\ y_size = 3
    /\ Len(solution.walked) >= 8

\* C15: draw_solution called while goal_reached is false fails: it panics
\* and walks no cell.
C15_DrawFailsBeforeGoal ==
    (solution.outcome # "none" /\ ~goal_reached) =>
        /\ solution.outcome = "panic"
        /\ pc = "panic"
        /\ solution.walked = <<>>

\* C15 witness: draw_solution has panicked on a valid maze that was built
\* but not generated, where the finish coordinates are still the start cell.
C15_Witness ==
    /\ solution.outcome = "panic"
    /\ ~goal_reached
    /\ ValidConfiguration
    /\ VisitedCells = {}
    /\ <<finish_x, finish_y>> = StartCell

\* The coordinates one step from c in direction d (North is y + 1, East is
\* x + 1), inside the grid or not.
Neighbour(c, d) ==
    CASE d = "North" -> <<c[1], c[2] + 1>>
      [] d = "East"  -> <<c[1] + 1, c[2]>>
      [] d = "South" -> <<c[1], c[2] - 1>>
      [] d = "West"  -> <<c[1] - 1, c[2]>>

StepBack(c, d) ==
    CASE d = "North" -> <<c[1], c[2] - 1>>
      [] d = "East"  -> <<c[1] - 1, c[2]>>
      [] d = "South" -> <<c[1], c[2] + 1>>
      [] d = "West"  -> <<c[1] + 1, c[2]>>

\* The directions D in which the cell one step before c holds a set D edge
\* flag: the directions of travel of the recorded edges that arrive at c.
ArrivalDirections(c) ==
    {D \in Direction :
        /\ StepBack(c, D) \in DOMAIN cells
        /\ cells[StepBack(c, D)].edges[D]}

\* C17: get_previous_direction returns none for the start cell and for every
\* cell not yet visited, and for every other visited cell the one direction D
\* such that the cell one step back (in direction opposite(D)) has its D edge
\* flag set.
C17_IncomingDirection ==
    \A c \in DOMAIN cells :
        IF c = StartCell \/ ~cells[c].visited
        THEN get_previous_direction(c) = None
        ELSE /\ get_previous_direction(c) # None
             /\ ArrivalDirections(c) = {unwrap(get_previous_direction(c))}

\* C17 witness: two visited cells were arrived at heading West and heading
\* South, while an unvisited cell remains.
C17_Witness ==
    /\ pc = "loop"
    /\ \E c \in VisitedCells : get_previous_direction(c) = Some("West")
    /\ \E c \in VisitedCells : get_previous_direction(c) = Some("South")
    /\ \E c \in DOMAIN cells : c # StartCell /\ ~cells[c].visited

\* The directions in which is_valid allows a move from cell c.
ValidMoves(c) == {d \in Direction : is_valid(c, d)}

\* The cells the frontier paths stand on.
FrontierCells == {paths[i] : i \in 1 .. Len(paths)}

\* C18: for the current cell of every frontier path, the direction policy
\* returns none if and only if is_valid is false for all four directions from
\* that cell, and every direction it can return is one for which is_valid is
\* true.
C18_NoneIffNoValidMove ==
    \A c \in FrontierCells :
        /\ (None \in meander(c)) <=> (ValidMoves(c) = {})
        /\ \A outcome \in meander(c) :
              (outcome # None /\ outcome # AllWeightsZero) =>
                  unwrap(outcome) \in ValidMoves(c)
        /\ ValidMoves(c) # {} => \E d \in ValidMoves(c) : Some(d) \in meander(c)

\* C18 witness: of two frontier paths, the first is at a dead end away from
\* the start cell and the second has two or more valid moves, the move
\* straight on (its previous direction) among them.
C18_Witness ==
    /\ pc = "loop"
    /\ Len(paths) = 2
    /\ paths[1] # StartCell
    /\ meander(paths[1]) = {None}
    /\ Cardinality(meander(paths[2])) >= 2
    /\ Some(previous_direction_of(paths[2])) \in meander(paths[2])

\* A direction as a number of quarter turns clockwise from North.
Heading(d) ==
    CASE d = "North" -> 0
      [] d = "East"  -> 1
      [] d = "South" -> 2
      [] d = "West"  -> 3

\* The incoming direction of cell c, North when no recorded edge arrives.
IncomingOrNorth(c) ==
    IF ArrivalDirections(c) = {} THEN "North"
    ELSE CHOOSE D \in ArrivalDirections(c) : TRUE

\* The weight the claim gives direction d from cell c under strategy s.
ClaimedWeight(s, c, d) ==
    (IF d \in {"North", "South"}
        THEN s.weight_north_south ELSE s.weight_east_west)
    + (IF cells[Neighbour(c, d)].cell_type = cells[c].cell_type
        THEN s.weight_same_cell_type ELSE 0)
    + (IF d = IncomingOrNorth(c) THEN s.weight_forward ELSE 0)
    + (IF Heading(d) = (Heading(IncomingOrNorth(c)) + 3) % 4
        THEN s.weight_turn_left ELSE 0)
    + (IF Heading(d) = (Heading(IncomingOrNorth(c)) + 1) % 4
        THEN s.weight_turn_right ELSE 0)

\* The `weights` vector get_direction builds for cell c carries, for each
\* candidate direction, the weight the claim gives it.
WeightsAsClaimed(c) ==
    \A pd \in {previous_direction_of(c)} :
      \A ds \in {directions_of(c, pd)} :
        \A i \in 1 .. Len(ds) :
            weights_of(strategies[cells[c].cell_type + 1], c, ds, pd)[i]
              = ClaimedWeight(strategies[cells[c].cell_type + 1], c, ds[i])

\* C19: for the current cell of every frontier path, the weight of each
\* candidate direction is the axis weight, plus the same-type weight when the
\* neighbour has the cell's cell_type, plus the forward, left or right weight
\* when the direction is the previous direction, its left or its right, the
\* previous direction being the cell's incoming direction, or North when it
\* has none.
C19_WeightFormula == \A c \in FrontierCells : WeightsAsClaimed(c)

\* C19 witness: under the strategy of distinct weights, the stepped path
\* arrived heading East and can turn both left and right.
C19_Witness ==
    /\ pc = "loop"
    /\ strategies[1] = DistinctWeights
    /\ get_previous_direction(path) = Some("East")
    /\ is_valid(path, "North")
    /\ is_valid(path, "South")

\* The cells reached from the cells `known` by following set edge flags:
\* `new` are the cells found in the last round.
RECURSIVE AlongEdges(_, _)
AlongEdges(known, new) ==
    IF new = {} THEN known
    ELSE LET next == {Neighbour(e[1], e[2]) :
                        e \in {f \in new \X Direction : has_edge(f[1], f[2])}}
                     \ known
         IN AlongEdges(known \cup next, next)

\* C20: with the path steps of generate taken in any order of the frontier
\* paths, every visited cell other than the start cell has one incoming
\* edge and the start cell none, the edges contain no cycle (with one
\* incoming edge each, that is: every visited cell is reached from the start
\* cell along the edges), and at most one finish_area cell is visited.
C20_TreeUnderAnyOrder ==
    /\ \A c \in VisitedCells \ {StartCell} : Cardinality(IncomingEdges(c)) = 1
    /\ StartCell \in DOMAIN cells => IncomingEdges(StartCell) = {}
    /\ VisitedCells # {} =>
          VisitedCells \cup {StartCell} = AlongEdges({StartCell}, {StartCell})
    /\ Cardinality(VisitedFinishCells) <= 1

\* C20 witness: on the valid 3 x 3 grid the second of two paths has taken
\* three steps while the first still stands where its first step took it,
\* with valid moves left: an order the index loop never produces.
C20_Witness ==
    /\ pc = "loop"
    /\ x_size = 3 /\ y_size = 3 /\ start_finish_size = 1
    /\ Len(paths) = 2
    /\ paths[1] = Neighbour(StartCell, "North")
    /\ has_edge(StartCell, "North")
    /\ \A d \in Direction : ~has_edge(paths[1], d)
    /\ ValidMoves(paths[1]) # {}
    /\ Cardinality(VisitedCells) = 4

\* The stepped path is about to advance: the policy returns a direction.
Advancing == pc = "loop" /\ ~DeadEnd

\* C22: no step clears an edge flag, a visited flag or goal_reached; every
\* write sets a flag that was false: an advancing step sets exactly one edge
\* flag and one visited flag that were not set before, and goal_reached is
\* set only by a step that finds it false.
C22_FlagsWrittenOnce ==
    [][/\ EdgeFlags \subseteq EdgeFlags'
       /\ VisitedCells \subseteq VisitedCells'
       /\ goal_reached => goal_reached'
       /\ Advancing =>
            /\ Cardinality(EdgeFlags' \ EdgeFlags) = 1
            /\ Cardinality(VisitedCells' \ VisitedCells) = 1
       /\ VisitedFinishCells' # VisitedFinishCells =>
            ~goal_reached /\ goal_reached']_vars

\* C22 witness: the goal is reached, a cell holds two set edge flags (a
\* path left it twice) and a path is about to advance again.
C22_Witness ==
    /\ Advancing
    /\ goal_reached
    /\ \E c \in DOMAIN cells :
          Cardinality({d \in Direction : has_edge(c, d)}) >= 2

\* The fields of cell c that Maze::new sets and nothing writes afterwards.
Fixed(c) ==
    <<c.x, c.y, c.cell_type, c.start_area, c.finish_area>>

\* C23: every generation step leaves the coordinates, cell_type, start_area
\* and finish_area of each cell unchanged; an advancing step sets one edge
\* flag, on the path's current cell, and the visited flag of the neighbour
\* that edge points at, and changes no other cell; a backtracking or retiring
\* step changes nothing of the grid.
C23_StepFrame ==
    [][(pc = "built" \/ pc = "loop") =>
        /\ DOMAIN cells' = DOMAIN cells
        /\ \A c \in DOMAIN cells : Fixed(cells'[c]) = Fixed(cells[c])
        /\ Advancing =>
             \E d \in Direction :
                /\ Neighbour(path, d) \in DOMAIN cells
                /\ ~has_edge(path, d)
                /\ ~cells[Neighbour(path, d)].visited
                /\ cells' = [cells EXCEPT
                                ![path].edges[d] = TRUE,
                                ![Neighbour(path, d)].visited = TRUE]
        /\ DeadEnd =>
             UNCHANGED <<cells, goal_reached, finish_x, finish_y>>]_vars

\* C23 witness: two paths are active, the stepped one about to advance from
\* a cell that already holds a set edge flag, the other one at a dead end.
C23_Witness ==
    /\ Advancing
    /\ Len(paths) = 2
    /\ \E d \in Direction : has_edge(path, d)
    /\ \E i \in 1 .. Len(paths) : ValidMoves(paths[i]) = {}

\* C24: right, left and opposite map Direction into itself; right is the
\* cycle North -> East -> South -> West -> North (one quarter turn
\* clockwise); left undoes right and right undoes left; opposite is two right
\* turns and is its own inverse; so the four right turns get_direction makes
\* from the previous direction of a frontier path try each direction once.
C24_DirectionAlgebra ==
    /\ \A d \in Direction :
          /\ {right(d), left(d), opposite(d)} \subseteq Direction
          /\ Heading(right(d)) = (Heading(d) + 1) % 4
          /\ left(right(d)) = d
          /\ right(left(d)) = d
          /\ opposite(d) = right(right(d))
          /\ opposite(opposite(d)) = d
    /\ \A c \in FrontierCells :
          {rotation(previous_direction_of(c))[i] : i \in 1 .. 4} = Direction

\* C24 witness: generation has turned through the directions: the stepped
\* path arrived heading West and can go on to its left (South) and to its
\* right (North).
C24_Witness ==
    /\ pc = "loop"
    /\ get_previous_direction(path) = Some("West")
    /\ is_valid(path, left("West"))
    /\ is_valid(path, right("West"))
    /\ left("West") = "South"
    /\ right("West") = "North"

\* The paths already stepped in the current pass and those still to step,
\* the stepped path first.
SteppedInPass == SubSeq(paths, 1, index)

PendingInPass == SubSeq(paths, index + 1, Len(paths))

\* C25: within a pass the paths are stepped one after the other, each once:
\* a step takes the first pending path; afterwards the paths stepped in the
\* pass are those stepped before plus this one (unless it was removed), and
\* the pending ones are the others pending before, in order, followed by the
\* path spawned in the step, if any; the pass ends, and the next begins with
\* every path pending, exactly when nothing is pending.
C25_OneStepPerPass ==
    [][pc = "loop" =>
        /\ index < Len(paths)
        /\ \E moved \in {<<>>} \cup {<<c>> : c \in DOMAIN cells},
              spawned \in {<<>>, <<path>>} :
             /\ paths' = SteppedInPass \o moved \o Tail(PendingInPass)
                                      \o spawned
             /\ IF Tail(PendingInPass) \o spawned # <<>>
                THEN /\ pc' = "loop"
                     /\ index' = Len(SteppedInPass \o moved)
                ELSE /\ pc' = IF paths' = <<>> THEN "done" ELSE "loop"
                     /\ paths' # <<>> => index' = 0]_vars

\* C25 witness: the first of three paths is at the start cell at a dead end,
\* about to be removed, and the two paths after it are elsewhere and still to
\* step in this pass.
C25_Witness ==
    /\ DeadEnd
    /\ index = 0
    /\ Len(paths) = 3
    /\ paths[1] = StartCell
    /\ paths[2] # StartCell
    /\ paths[3] # StartCell

\* C26: the paths vector grows only in a step where the policy returned a
\* direction, by exactly one path, appended as a copy of the stepping path's
\* position before the move; a dead-end step (backtrack or retire) never
\* lengthens the vector and brings no cell into it other than the
\* predecessor the path backs into.
C26_BranchOnlyOnAdvance ==
    [][pc = "loop" =>
        /\ Len(paths') > Len(paths) =>
              /\ \E d \in Direction : <<d>> \in meander(path)
              /\ None \notin meander(path)
              /\ Len(paths') = Len(paths) + 1
              /\ paths'[Len(paths')] = path
        /\ DeadEnd =>
              /\ Len(paths') <= Len(paths)
              /\ path = StartCell => Len(paths') = Len(paths) - 1]_vars

\* C26 witness: the first path has just branched and moved; the spawned
\* path stands on the cell it left, which has the edge to the cell it is on
\* now, and is about to step.
C26_Witness ==
    /\ pc = "loop"
    /\ Len(paths) = 2
    /\ index = 1
    /\ \E d \in Direction :
          /\ has_edge(paths[2], d)
          /\ Neighbour(paths[2], d) = paths[1]

\* C27: every frontier path stands on the start cell or on a visited cell
\* with an incoming edge; on a valid configuration (the weights of the
\* strategies being positive) generation never panics, every direction the
\* policy can return for the stepping path has an adjacent cell inside the
\* grid, and a path at a dead end away from the start cell has a
\* predecessor cell.
C27_LookupsNeverFail ==
    /\ \A c \in FrontierCells :
          \/ c = StartCell
          \/ c \in VisitedCells /\ IncomingEdges(c) # {}
    /\ ValidConfiguration =>
          /\ pc # "panic"
          /\ \A s \in {strategies[i] : i \in 1 .. Len(strategies)} :
                \A f \in DOMAIN s : s[f] > 0
          /\ pc = "loop" =>
                /\ \A outcome \in meander(path) :
                      outcome # None =>
                        get_adjacent(path, unwrap(outcome)) # None
                /\ DeadEnd /\ path # StartCell =>
                      /\ get_previous_direction(path) # None
                      /\ get_previous_cell(path) # None

\* C27 witness: on a valid configuration a second path, spawned earlier, is
\* at a dead end away from the start cell and is about to look up its
\* predecessor.
C27_Witness ==
    /\ ValidConfiguration
    /\ DeadEnd
    /\ index = 1
    /\ path # StartCell
    /\ get_previous_cell(path) # None

\* C28: whenever goal_reached is set, exactly one finish_area cell is
\* marked visited and (finish_x, finish_y) are its coordinates; once
\* goal_reached is set no step changes finish_x or finish_y.
C28_FinishCoordinates ==
    /\ [](goal_reached => VisitedFinishCells = {<<finish_x, finish_y>>})
    /\ [][goal_reached => UNCHANGED <<finish_x, finish_y>>]_vars

\* C28 witness: on a valid configuration, after the goal was reached, the
\* stepping path stands next to the recorded finish cell without having the
\* edge into it, and next to another cell it can still move to.
C28_Witness ==
    /\ ValidConfiguration
    /\ goal_reached
    /\ Advancing
    /\ \E d \in Direction :
          /\ Neighbour(path, d) = <<finish_x, finish_y>>
          /\ ~has_edge(path, d)

\* C29: the number of frontier paths is at most one plus the number of
\* visited cells, and at most the number of cells of the grid.
C29_FrontierBound ==
    /\ Len(paths) <= 1 + Cardinality(VisitedCells)
    /\ pc = "loop" => Len(paths) <= Cardinality(DOMAIN cells)

\* C29 witness: two moves in a row have branched, so that three paths stand
\* on a grid with two visited cells.
C29_Witness ==
    /\ pc = "loop"
    /\ Len(paths) = 3
    /\ Cardinality(VisitedCells) = 2

\* C30: no finish_area cell has an outgoing edge flag set, and no frontier
\* path has a finish_area cell as its current cell.
C30_FinishIsLeaf ==
    /\ \A c \in FinishCells : \A d \in Direction : ~has_edge(c, d)
    /\ \A c \in FrontierCells : ~cells[c].finish_area

\* The same on the configurations that satisfy the validity conditions.
C30_FinishIsLeafWhenValid == ValidConfiguration => C30_FinishIsLeaf

\* ---------------------------------------------------- encode-card-deck
\* The value by which message_to_number scales its multiplier and by which
\* number_to_message divides: one character is one digit of this radix.
Radix == 32

ALPHABET ==
    <<"a", "b", "c", "d", "e", "f", "g", "h",
      "i", "j", "k", "l", "m", "n", "o", "p",
      "q", "r", "s", "t", "u", "v", "w", "x",
      "y", "z", " ", ".", "!", "?", "-", "*">>

\* The cards in their reference order.
CARDS ==
    <<"AC", "2C", "3C", "4C", "5C", "6C", "7C", "8C", "9C", "TC", "JC", "QC", "KC",
      "AD", "2D", "3D", "4D", "5D", "6D", "7D", "8D", "9D", "TD", "JD", "QD", "KD",
      "AH", "2H", "3H", "4H", "5H", "6H", "7H", "8H", "9H", "TH", "JH", "QH", "KH",
      "AS", "2S", "3S", "4S", "5S", "6S", "7S", "8S", "9S", "TS", "JS", "QS", "KS">>

\* The cards of the deck in use, in reference order.
Deck == SubSeq(CARDS, 1, DeckSize)

\* process::exit(1) taken inside a function: the function returns nothing.
\* A function that can take it returns Some(value) otherwise.
Exit == None

\* lookup_char: the card_index of the character in ALPHABET, counted from 0.
lookup_char(char) ==
    IF \E i \in 1 .. Len(ALPHABET) : ALPHABET[i] = char
    THEN Some((CHOOSE i \in 1 .. Len(ALPHABET) :
                  /\ ALPHABET[i] = char
                  /\ \A j \in 1 .. i - 1 : ALPHABET[j] # char) - 1)
    ELSE Exit

\* num_to_char: ALPHABET.get(number).unwrap(), with number below Radix.
num_to_char(number) == ALPHABET[number + 1]

RECURSIVE factorial(_)
factorial(operand) ==
    IF operand = 0 THEN 1 ELSE operand * factorial(operand - 1)

\* The loop of message_to_number over the characters still to read.
RECURSIVE message_to_number_loop(_, _, _)
message_to_number_loop(chars, result, multiplier) ==
    IF chars = <<>> THEN Some(result)
    ELSE IF lookup_char(Head(chars)) = Exit THEN Exit
    ELSE message_to_number_loop(
             Tail(chars),
             result + unwrap(lookup_char(Head(chars))) * multiplier,
             multiplier * Radix)

message_to_number(message) == message_to_number_loop(message, 0, 1)

\* The inner loop of number_to_cards: the slot that is the position-th open
\* one (counted from 0), as a set that is empty when there is none.
open_slot(cards, position) ==
    LET open == {i \in 1 .. Len(cards) : cards[i] = ""}
    IN {i \in open : Cardinality({j \in open : j < i}) = position}

\* The outer loop of number_to_cards from card number `card_index` on (the
\* loop's `index`).
RECURSIVE number_to_cards_loop(_, _, _)
number_to_cards_loop(card_index, remainder, cards) ==
    IF card_index = DeckSize THEN cards
    ELSE LET subrange_size == factorial(DeckSize - 1 - card_index)
             position == remainder \div subrange_size
             slot == open_slot(cards, position)
         IN number_to_cards_loop(
                card_index + 1,
                remainder - position * subrange_size,
                [i \in 1 .. Len(cards) |->
                    IF i \in slot THEN Deck[card_index + 1] ELSE cards[i]])

\* number_to_cards.  The string it returns joins the slots with single
\* spaces and cards_to_number splits it at single spaces; no card name holds
\* a space, so the string is held as the sequence of its slots.
number_to_cards(number) ==
    number_to_cards_loop(0, number, [i \in 1 .. DeckSize |-> ""])

\* remove_card: the position (from 0) of the first occurrence of the card,
\* Exit when it is absent.
remove_card_position(search_card, cards) ==
    IF \E i \in 1 .. Len(cards) : cards[i] = search_card
    THEN Some((CHOOSE i \in 1 .. Len(cards) :
                  /\ cards[i] = search_card
                  /\ \A j \in 1 .. i - 1 : cards[j] # search_card) - 1)
    ELSE Exit

\* remove_card: the list after cards.remove(card_index).
remove_card_rest(cards, position) ==
    SubSeq(cards, 1, position) \o SubSeq(cards, position + 2, Len(cards))

\* The loop of cards_to_number from card number `card_index` on.
RECURSIVE cards_to_number_loop(_, _, _)
cards_to_number_loop(card_index, cards, result) ==
    IF card_index = DeckSize THEN Some(result)
    ELSE LET position == remove_card_position(Deck[card_index + 1], cards)
         IN IF position = Exit THEN Exit
            ELSE cards_to_number_loop(
                     card_index + 1,
                     remove_card_rest(cards, unwrap(position)),
                     result + unwrap(position)
                                * factorial(DeckSize - 1 - card_index))

cards_to_number(cards) ==
    IF Len(cards) # DeckSize THEN Exit
    ELSE cards_to_number_loop(0, cards, 0)

\* The loop of number_to_message.
RECURSIVE number_to_message_loop(_, _)
number_to_message_loop(number_local, message) ==
    IF number_local > 0
    THEN number_to_message_loop(
             number_local \div Radix,
             Append(message, num_to_char(number_local % Radix)))
    ELSE message

number_to_message(number) == number_to_message_loop(number, <<>>)

encode(message) ==
    IF Len(message) > MaxMessageLen THEN Exit
    ELSE IF message_to_number(message) = Exit THEN Exit
    ELSE Some(number_to_cards(unwrap(message_to_number(message))))

decode(cards) ==
    IF cards_to_number(cards) = Exit THEN Exit
    ELSE Some(number_to_message(unwrap(cards_to_number(cards))))

\* The characters a message can be typed with: those of ALPHABET and one
\* that is not in it.
Characters == {ALPHABET[i] : i \in 1 .. Len(ALPHABET)} \cup {"#"}

\* The messages handed to encode: every message of at most MaxMessageLen
\* characters, and one that is too long.
Messages ==
    UNION {[1 .. n -> Characters] : n \in 0 .. MaxMessageLen}
      \cup {[i \in 1 .. MaxMessageLen + 1 |-> "b"]}

\* The card-deck program is started with a message to encode; the maze
\* generator is not running.
InitCipher ==
    /\ x_size = 0
    /\ y_size = 0
    /\ start_finish_size = 0
    /\ cells = <<>>
    /\ strategies = <<>>
    /\ goal_reached = FALSE
    /\ finish_x = 0
    /\ finish_y = 0
    /\ start_x = 0
    /\ start_y = 0
    /\ paths = <<>>
    /\ index = 0
    /\ pc = "off"
    /\ solution = NotDrawn
    /\ cipher \in {[pc |-> "encode", message |-> m,
                     cards |-> <<>>, decoded |-> <<>>] : m \in Messages}

\* main, operation "encode": the message is encoded and the deck printed.
Encode ==
    /\ cipher.pc = "encode"
    /\ cipher' = IF encode(cipher.message) = Exit
                 THEN [cipher EXCEPT !.pc = "exit"]
                 ELSE [cipher EXCEPT !.pc = "decode",
                                     !.cards = unwrap(encode(cipher.message))]
    /\ UNCHANGED maze

\* main, operation "decode", run on the deck that was printed.
Decode ==
    /\ cipher.pc = "decode"
    /\ cipher' = IF decode(cipher.cards) = Exit
                 THEN [cipher EXCEPT !.pc = "exit"]
                 ELSE [cipher EXCEPT !.pc = "done",
                                     !.decoded = unwrap(decode(cipher.cards))]
    /\ UNCHANGED maze

NextCipher == Encode \/ Decode

SpecCipher == InitCipher /\ [][NextCipher]_vars

\* The message is one encode accepts: at most MaxMessageLen characters, all
\* of them in ALPHABET.
Accepted(message) ==
    /\ Len(message) <= MaxMessageLen
    /\ \A i \in 1 .. Len(message) : lookup_char(message[i]) # Exit

\* The message without the characters of code 0 ('a') at its end.
RECURSIVE WithoutTrailingZeros(_)
WithoutTrailingZeros(message) ==
    IF message # <<>> /\ lookup_char(message[Len(message)]) = Some(0)
    THEN WithoutTrailingZeros(SubSeq(message, 1, Len(message) - 1))
    ELSE message

\* C31: decoding the deck that encodes an accepted message gives the message
\* back, the empty message and the messages that end in 'a' included.
C31_RoundTrip ==
    Accepted(cipher.message) =>
        /\ cipher.pc # "exit"
        /\ cipher.pc = "done" => cipher.decoded = cipher.message

\* What the code does instead: every accepted message is encoded into a
\* full deck and decoded without an exit, and the decoded text is the
\* message without the 'a' characters at its end.
C31_RoundTripDropsTrailingZeros ==
    Accepted(cipher.message) =>
        /\ cipher.pc # "exit"
        /\ cipher.pc \in {"decode", "done"} =>
              /\ Len(cipher.cards) = DeckSize
              /\ {cipher.cards[i] : i \in 1 .. DeckSize}
                   = {Deck[i] : i \in 1 .. DeckSize}
              /\ cards_to_number(cipher.cards)
                   = message_to_number(cipher.message)
        /\ cipher.pc = "done" =>
              cipher.decoded = WithoutTrailingZeros(cipher.message)

\* A message ending in 'a' has been encoded and decoded.
C31_TrailingZeroDecoded ==
    /\ cipher.pc = "done"
    /\ Len(cipher.message) = MaxMessageLen
    /\ cipher.message[MaxMessageLen] = "a"
    /\ cipher.message[1] # "a"

====
